---- MODULE Spec2Model ----
(***************************************************************************)
(* A model of the thin adapter layer of lightning-flash: input validation, *)
(* the style-transfer transform and data module, the image loaders and     *)
(* deserializer, the regression task builder, the face-detection collate   *)
(* function and the CLI entry points.                                      *)
(*                                                                         *)
(* The program is single threaded.  `pc` is where the interpreter is:      *)
(* "idle" (nothing called yet, or the last result was dropped),            *)
(* "returned" (a library call has just returned or raised; `ret` holds the *)
(* call, its arguments and its outcome) or a position inside a CLI entry   *)
(* point.  `cli`, `events` and `checkpoints` are the state of a CLI run.   *)
(***************************************************************************)
EXTENDS Integers, Sequences, FiniteSets, TLC

VARIABLES pc, ret, cli, events, checkpoints

vars == <<pc, ret, cli, events, checkpoints>>

(***************************************************************************)
(* Python values.  Optional[X] is a sequence: <<>> is None, <<x>> is x.    *)
(* A dict is a function from its keys.  An outcome carries `raised`: the   *)
(* empty sequence when the call returned, <<exception>> when it raised.    *)
(***************************************************************************)
None == <<>>

Some(x) == <<x>>

EmptyDict == [k \in {} |-> ""]

\* bool(x) of an Optional[Dict]: None and the empty dict are falsy
Truthy(o) == o # None /\ DOMAIN o[1] # {}

NoCall == [op |-> "none"]

\* ------------------------------------------------------------------ bounds
MaxLen == 3

MaxDim == 2

MaxBatch == 2

MaxTrips == 2

\* ------------------------------------------------- Input / IterableInput
\* Data sources of the two kinds the tests construct: a list (has a length)
\* and an iterator over a list (has none).
Items == UNION {[1..n -> 1..2] : n \in 0..MaxLen}

DataSources == [kind : {"list", "iterator"}, items : Items]

HasLen(data) == data.kind = "list"

ValidateInputSwapped(cls, data) ==
    IF cls = "Input" /\ HasLen(data)
      THEN Some([exc |-> "RuntimeError", msg |-> "Use IterableInput instead."])
    ELSE IF cls = "IterableInput" /\ ~HasLen(data)
      THEN Some([exc |-> "RuntimeError", msg |-> "Use Input instead."])
    ELSE None

ValidateInputLax(cls, data) ==
    IF cls = "Input" /\ ~HasLen(data)
      THEN Some([exc |-> "RuntimeError", msg |-> "Use IterableInput instead."])
    ELSE None

\* The check the base classes run after a subclass __init__ has set data
\* (the messages quote the class name in backquotes, left out here).
ValidateInput(cls, data) ==
    IF cls = "Input" /\ ~HasLen(data)
      THEN Some([exc |-> "RuntimeError", msg |-> "Use IterableInput instead."])
    ELSE IF cls = "IterableInput" /\ HasLen(data)
      THEN Some([exc |-> "RuntimeError", msg |-> "Use Input instead."])
    ELSE None

\* SubInput(RunningStage.X) for a subclass whose __init__ sets self.data = data
ConstructInput(cls, stage, data) ==
    LET err == ValidateInput(cls, data)
    IN  [raised |-> err,
         obj    |-> IF err = None
                      THEN Some([cls |-> cls, running_stage |-> stage, data |-> data])
                      ELSE None]

RunningStages == {"train", "validate", "test", "predict"}

NewInput ==
    /\ pc = "idle"
    /\ \E cls \in {"Input", "IterableInput"}, stage \in RunningStages, data \in DataSources :
         ret' = [op  |-> "Input.__init__",
                 in  |-> [cls |-> cls, stage |-> stage, data |-> data],
                 out |-> ConstructInput(cls, stage, data)]
    /\ pc' = "returned"
    /\ UNCHANGED <<cli, events, checkpoints>>

\* ------------------------------------------------ style transfer transform
Hooks == {"to_tensor_transform", "collate"}

\* Optional[Dict[str, Callable]] arguments: None, {}, or a dict with a hook
TransformArgs ==
    {None, Some(EmptyDict)} \cup {Some([h \in {k} |-> "fn"]) : k \in Hooks}

\* image_size: an int n, or an (h, w) tuple
ImageSizes ==
    {[tag |-> "int", v |-> <<n>>] : n \in 1..MaxDim}
      \cup {[tag |-> "tuple", v |-> <<h, w>>] : h, w \in 1..MaxDim}

RaiseNotSupported(phase) == [exc |-> "NotSupported", phase |-> phase]

StyleTransferInitTestFirst(train_transform, val_transform, test_transform, predict_transform, image_size) ==
    IF Truthy(test_transform)
      THEN [raised |-> Some(RaiseNotSupported("test")), steps |-> <<>>, obj |-> None]
    ELSE IF Truthy(val_transform)
      THEN [raised |-> Some(RaiseNotSupported("validation")), steps |-> <<>>, obj |-> None]
    ELSE [raised |-> None, steps |-> <<"image_size", "super().__init__">>,
          obj |-> Some([cls        |-> "StyleTransferInputTransform",
                        image_size |-> image_size.v,
                        transforms |-> [train_transform   |-> train_transform,
                                        val_transform     |-> val_transform,
                                        test_transform    |-> test_transform,
                                        predict_transform |-> predict_transform]])]

\* StyleTransferInputTransform.__init__; `steps` lists, in order, what the
\* constructor did to the object before it returned or raised.
StyleTransferInit(train_transform, val_transform, test_transform, predict_transform, image_size) ==
    IF Truthy(val_transform)
      THEN [raised |-> Some(RaiseNotSupported("validation")), steps |-> <<>>, obj |-> None]
    ELSE IF Truthy(test_transform)
      THEN [raised |-> Some(RaiseNotSupported("test")), steps |-> <<>>, obj |-> None]
    ELSE LET size == IF image_size.tag = "int"
                       THEN <<image_size.v[1], image_size.v[1]>>
                       ELSE image_size.v
         IN  [raised |-> None,
              steps  |-> <<"image_size", "super().__init__">>,
              obj    |-> Some([cls        |-> "StyleTransferInputTransform",
                               image_size |-> size,
                               transforms |-> [train_transform   |-> train_transform,
                                               val_transform     |-> val_transform,
                                               test_transform    |-> test_transform,
                                               predict_transform |-> predict_transform]])]

NewStyleTransferInputTransform ==
    /\ pc = "idle"
    /\ \E tr \in {None, Some([h \in {"collate"} |-> "fn"])},
          va \in TransformArgs, te \in TransformArgs,
          pr \in {None, Some([h \in {"collate"} |-> "fn"])},
          sz \in ImageSizes :
         ret' = [op  |-> "StyleTransferInputTransform.__init__",
                 in  |-> [train_transform |-> tr, val_transform |-> va,
                          test_transform |-> te, predict_transform |-> pr,
                          image_size |-> sz],
                 out |-> StyleTransferInit(tr, va, te, pr, sz)]
    /\ pc' = "returned"
    /\ UNCHANGED <<cli, events, checkpoints>>

\* -------------------------------------------------- StyleTransferData
\* image_size: int = 256
DefaultImageSize == 256

KwParams == {"val_folder", "val_transform", "test_folder", "test_transform", "batch_size"}

\* A keyword value: None, a falsy value that is not None ("" or {}), or a
\* truthy one (a folder path, a transform dict, a number).
KwValues == {None, Some("empty"), Some("given")}

Kwargs == UNION {[ps -> KwValues] : ps \in SUBSET KwParams}

\* any(param in kwargs and kwargs[param] is not None for param in params)
AnyGiven(kwargs, params) ==
    \E param \in params : param \in DOMAIN kwargs /\ kwargs[param] # None

FromFoldersTruthy(train_folder, predict_folder, train_transform, predict_transform, input_transform, kwargs) ==
    LET given(ps) == \E p \in ps : p \in DOMAIN kwargs /\ kwargs[p] = Some("given")
        built == StyleTransferInit(train_transform, None, None, predict_transform,
                                   [tag |-> "int", v |-> <<DefaultImageSize>>])
    IN  IF given({"val_folder", "val_transform"})
          THEN [raised |-> Some(RaiseNotSupported("validation")),
                constructed |-> FALSE, from_input |-> None]
        ELSE IF given({"test_folder", "test_transform"})
          THEN [raised |-> Some(RaiseNotSupported("test")),
                constructed |-> FALSE, from_input |-> None]
        ELSE [raised      |-> None,
              constructed |-> input_transform = None,
              from_input  |-> Some([format          |-> "FOLDERS",
                                    train_data      |-> train_folder,
                                    predict_data    |-> predict_folder,
                                    input_transform |-> IF input_transform # None
                                                          THEN input_transform[1]
                                                          ELSE built.obj[1],
                                    kwargs          |-> kwargs])]

\* StyleTransferData.from_folders: `constructed` tells whether it built an
\* input transform, `from_input` is the call it made to cls.from_input.
FromFolders(train_folder, predict_folder, train_transform, predict_transform, input_transform, kwargs) ==
    IF AnyGiven(kwargs, {"val_folder", "val_transform"})
      THEN [raised |-> Some(RaiseNotSupported("validation")),
            constructed |-> FALSE, from_input |-> None]
    ELSE IF AnyGiven(kwargs, {"test_folder", "test_transform"})
      THEN [raised |-> Some(RaiseNotSupported("test")),
            constructed |-> FALSE, from_input |-> None]
    ELSE IF input_transform # None
      THEN [raised      |-> None,
            constructed |-> FALSE,
            from_input  |-> Some([format          |-> "FOLDERS",
                                  train_data      |-> train_folder,
                                  predict_data    |-> predict_folder,
                                  input_transform |-> input_transform[1],
                                  kwargs          |-> kwargs])]
    ELSE LET built == StyleTransferInit(train_transform, None, None, predict_transform,
                                        [tag |-> "int", v |-> <<DefaultImageSize>>])
         IN  IF built.raised # None
               THEN [raised |-> built.raised, constructed |-> FALSE, from_input |-> None]
               ELSE [raised      |-> None,
                     constructed |-> TRUE,
                     from_input  |-> Some([format          |-> "FOLDERS",
                                           train_data      |-> train_folder,
                                           predict_data    |-> predict_folder,
                                           input_transform |-> built.obj[1],
                                           kwargs          |-> kwargs])]

GivenTransform ==
    StyleTransferInit(None, None, None, None, [tag |-> "tuple", v |-> <<1, 2>>]).obj

StyleTransferFromFolders ==
    /\ pc = "idle"
    /\ \E tf \in {None, Some("train/")}, pf \in {None, Some("predict/")},
          tt \in {None, Some([h \in {"collate"} |-> "fn"])},
          it \in {None, GivenTransform},
          kw \in Kwargs :
         ret' = [op  |-> "StyleTransferData.from_folders",
                 in  |-> [train_folder |-> tf, predict_folder |-> pf,
                          train_transform |-> tt, predict_transform |-> None,
                          input_transform |-> it, kwargs |-> kw],
                 out |-> FromFolders(tf, pf, tt, None, it, kw)]
    /\ pc' = "returned"
    /\ UNCHANGED <<cli, events, checkpoints>>

\* ------------------------------------------------------------ image_loader
\* File names are sequences of characters.
IMG_EXTENSIONS ==
    { <<".", "j", "p", "g">>, <<".", "j", "p", "e", "g">>, <<".", "p", "n", "g">>,
      <<".", "p", "p", "m">>, <<".", "b", "m", "p">>, <<".", "p", "g", "m">>,
      <<".", "t", "i", "f">>, <<".", "t", "i", "f", "f">>, <<".", "w", "e", "b", "p">> }

NP_EXTENSIONS == { <<".", "n", "p", "y">> }

EndsWith(s, suffix) ==
    /\ Len(suffix) <= Len(s)
    /\ SubSeq(s, Len(s) - Len(suffix) + 1, Len(s)) = suffix

\* filename.endswith(extensions), extensions a tuple of strings
HasFileAllowedExtension(filename, extensions) ==
    \E e \in extensions : EndsWith(filename, e)

\* A file on disk holds a picture of some width and height.
Files == [w : 1..MaxDim, h : 1..MaxDim]

\* image_default_loader: the PIL image of the file; size is (width, height)
ImageDefaultLoader(filepath, file) ==
    [size |-> <<file.w, file.h>>, from |-> "pil", path |-> filepath]

\* Image.fromarray(np.load(filepath).astype("uint8"), "RGB"): the array has
\* shape (h, w, 3), the image size (w, h)
ImageFromArray(filepath, file) ==
    [size |-> <<file.w, file.h>>, from |-> "numpy", path |-> filepath]

ImageLoaderNoCheck(filepath, file) ==
    IF HasFileAllowedExtension(filepath, NP_EXTENSIONS)
      THEN [raised |-> None, loads |-> <<"np.load">>,
            img |-> Some(ImageFromArray(filepath, file))]
      ELSE [raised |-> None, loads |-> <<"image_default_loader">>,
            img |-> Some(ImageDefaultLoader(filepath, file))]

\* image_loader; `loads` lists the loaders it called
ImageLoader(filepath, file) ==
    IF HasFileAllowedExtension(filepath, IMG_EXTENSIONS)
      THEN [raised |-> None, loads |-> <<"image_default_loader">>,
            img |-> Some(ImageDefaultLoader(filepath, file))]
    ELSE IF HasFileAllowedExtension(filepath, NP_EXTENSIONS)
      THEN [raised |-> None, loads |-> <<"np.load">>,
            img |-> Some(ImageFromArray(filepath, file))]
    ELSE [raised |-> Some([exc       |-> "ValueError",
                           file      |-> filepath,
                           supported |-> IMG_EXTENSIONS \cup NP_EXTENSIONS]),
          loads  |-> <<>>,
          img    |-> None]

OtherSuffixes ==
    { <<>>, <<".", "t", "x", "t">>, <<"n", "p", "y">>, <<".", "j", "p">>, <<".">> }

Suffixes == IMG_EXTENSIONS \cup NP_EXTENSIONS \cup OtherSuffixes

Stems == UNION {[1..n -> {"a"}] : n \in 0..1}

\* a stem, then one or two suffixes ("a.jpg", "a.npy.jpg", "a.txt.npy")
Filenames == {st \o s1 \o s2 : st \in Stems, s1 \in Suffixes, s2 \in Suffixes}

CallImageLoader ==
    /\ pc = "idle"
    /\ \E filepath \in Filenames, file \in Files :
         ret' = [op  |-> "image_loader",
                 in  |-> [filepath |-> filepath, file |-> file],
                 out |-> ImageLoader(filepath, file)]
    /\ pc' = "returned"
    /\ UNCHANGED <<cli, events, checkpoints>>

\* ------------------------------------------------------- ImageDeserializer
\* A base64 string is a sequence of sextets 0..63 and the pad character.
PAD == 64

ByteVals == {0, 77, 128, 255}

Payloads == UNION {[1..n -> ByteVals] : n \in 0..MaxLen}

\* base64.b64encode
RECURSIVE B64Encode(_)
B64Encode(b) ==
    IF Len(b) = 0 THEN <<>>
    ELSE IF Len(b) = 1
      THEN <<b[1] \div 4, (b[1] % 4) * 16, PAD, PAD>>
    ELSE IF Len(b) = 2
      THEN <<b[1] \div 4, (b[1] % 4) * 16 + b[2] \div 16, (b[2] % 16) * 4, PAD>>
    ELSE <<b[1] \div 4, (b[1] % 4) * 16 + b[2] \div 16,
           (b[2] % 16) * 4 + b[3] \div 64, b[3] % 64>>
         \o B64Encode(SubSeq(b, 4, Len(b)))

\* One character of binascii.a2b_base64 (not strict).  st is the decoder:
\* quad_pos, leftchar, pads, the bytes written, and done once a complete
\* pad sequence ended the input.
A2bStep(st, ch) ==
    IF st.done THEN st
    ELSE IF ch = PAD
      THEN IF st.quad_pos >= 2
             THEN IF st.quad_pos + st.pads + 1 >= 4
                    THEN [st EXCEPT !.pads = st.pads + 1, !.done = TRUE]
                    ELSE [st EXCEPT !.pads = st.pads + 1]
             ELSE st
    ELSE IF ch > PAD THEN st
    ELSE IF st.quad_pos = 0
      THEN [st EXCEPT !.pads = 0, !.quad_pos = 1, !.leftchar = ch]
    ELSE IF st.quad_pos = 1
      THEN [st EXCEPT !.pads = 0, !.quad_pos = 2,
                      !.out = Append(st.out, (st.leftchar * 4 + ch \div 16) % 256),
                      !.leftchar = ch % 16]
    ELSE IF st.quad_pos = 2
      THEN [st EXCEPT !.pads = 0, !.quad_pos = 3,
                      !.out = Append(st.out, (st.leftchar * 16 + ch \div 4) % 256),
                      !.leftchar = ch % 4]
    ELSE [st EXCEPT !.pads = 0, !.quad_pos = 0,
                    !.out = Append(st.out, (st.leftchar * 64 + ch) % 256),
                    !.leftchar = 0]

RECURSIVE A2bRun(_, _)
A2bRun(st, s) ==
    IF Len(s) = 0 THEN st ELSE A2bRun(A2bStep(st, Head(s)), Tail(s))

\* base64.b64decode(s): the bytes, or binascii.Error
B64Decode(s) ==
    LET st == A2bRun([quad_pos |-> 0, leftchar |-> 0, pads |-> 0,
                      out |-> <<>>, done |-> FALSE], s)
    IN  IF ~st.done /\ st.quad_pos # 0
          THEN [raised |-> Some([exc |-> "binascii.Error"]), bytes |-> <<>>]
          ELSE [raised |-> None, bytes |-> st.out]

DeserializeNoPadding(data) ==
    LET dec == B64Decode(data)
    IN  IF dec.raised # None
          THEN [raised |-> dec.raised, sample |-> None]
          ELSE [raised |-> None,
                sample |-> Some([k \in {"input"} |-> [from |-> "bytes", bytes |-> dec.bytes]])]

\* ImageDeserializer.deserialize: the sample, a dict from DataKeys to values;
\* the image is the one Image.open reads from the decoded bytes
Deserialize(data) ==
    LET dec == B64Decode(data \o <<PAD, PAD, PAD>>)
    IN  IF dec.raised # None
          THEN [raised |-> dec.raised, sample |-> None]
          ELSE [raised |-> None,
                sample |-> Some([k \in {"input"} |-> [from |-> "bytes", bytes |-> dec.bytes]])]

\* ImageDeserializer.example_input, for an asset file holding `bytes`
ExampleInput(bytes) == B64Encode(bytes)

\* s without its last k characters
DropLast(s, k) == SubSeq(s, 1, Len(s) - k)

NumPads(s) == Cardinality({i \in 1..Len(s) : s[i] = PAD})

\* A request carries the encoding of some bytes with none, some or all of its
\* padding removed, or an arbitrary short string (65 stands for a character
\* outside the base64 alphabet, which the decoder skips).
CallDeserialize ==
    /\ pc = "idle"
    /\ \/ \E payload \in Payloads :
            \E k \in 0..NumPads(ExampleInput(payload)) :
              LET data == DropLast(ExampleInput(payload), k)
              IN  ret' = [op  |-> "ImageDeserializer.deserialize",
                          in  |-> [payload |-> Some(payload), stripped |-> k, data |-> data],
                          out |-> Deserialize(data)]
       \/ \E data \in UNION {[1..n -> {0, 63, PAD, 65}] : n \in 0..2} :
              ret' = [op  |-> "ImageDeserializer.deserialize",
                      in  |-> [payload |-> None, stripped |-> 0, data |-> data],
                      out |-> Deserialize(data)]
    /\ pc' = "returned"
    /\ UNCHANGED <<cli, events, checkpoints>>

\* ---------------------------------------------------------- RegressionTask
\* loss_fn: Optional[Callable]; a callable is truthy
LossArgs == {None, Some([fn |-> "l1_loss"]), Some([fn |-> "mse_loss"])}

\* metrics: a Metric, a Mapping or Sequence of metrics (possibly empty), None
MetricsArgs ==
    {None} \cup {Some([kind |-> "Metric", items |-> <<"MeanAbsoluteError">>])}
           \cup {Some([kind |-> k, items |-> i]) :
                   k \in {"Sequence", "Mapping"},
                   i \in {<<>>, <<"MeanAbsoluteError">>, <<"MeanSquaredError", "R2Score">>}}

\* bool(x) of a metrics or loss argument: None and empty collections are falsy
IsTruthy(o) ==
    /\ o # None
    /\ "items" \in DOMAIN o[1] => o[1].items # <<>>

MseLoss == [fn |-> "mse_loss"]

MeanSquaredError == [kind |-> "Metric", items |-> <<"MeanSquaredError">>]

BuildSwapped(loss_fn, metrics) ==
    <<IF IsTruthy(loss_fn) THEN loss_fn[1] ELSE MseLoss,
      IF IsTruthy(metrics) THEN metrics[1] ELSE MeanSquaredError>>

\* RegressionMixin._build: the pair (metrics, loss_fn)
Build(loss_fn, metrics) ==
    <<IF IsTruthy(metrics) THEN metrics[1] ELSE MeanSquaredError,
      IF IsTruthy(loss_fn) THEN loss_fn[1] ELSE MseLoss>>

\* RegressionTask.__init__: the keywords it hands to Task.__init__
RegressionTaskInit(loss_fn, metrics, serializer) ==
    LET built == Build(loss_fn, metrics)
    IN  [built     |-> built,
         task_init |-> [loss_fn |-> built[2], metrics |-> built[1],
                        serializer |-> serializer]]

NewRegressionTask ==
    /\ pc = "idle"
    /\ \E loss_fn \in LossArgs, metrics \in MetricsArgs,
          serializer \in {None, Some("serializer")} :
         ret' = [op  |-> "RegressionTask.__init__",
                 in  |-> [loss_fn |-> loss_fn, metrics |-> metrics,
                          serializer |-> serializer],
                 out |-> RegressionTaskInit(loss_fn, metrics, serializer)]
    /\ pc' = "returned"
    /\ UNCHANGED <<cli, events, checkpoints>>

\* ------------------------------------------------------ image load_sample
\* to_pil_image of a tensor of shape (c, h, w): an image of size (w, h)
ToPilImage(shape) == [size |-> <<shape[3], shape[2]>>, from |-> "tensor", path |-> <<>>]

Shapes == {<<c, h, w>> : c \in {3}, h \in 1..MaxDim, w \in 1..MaxDim}

\* PathsInput.load_sample: loads the path, records it as metadata
PathsLoadSample(sample, file) ==
    LET path == sample["input"]
        loaded == ImageLoader(path, file)
    IN  IF loaded.raised # None
          THEN [raised |-> loaded.raised, sample |-> None]
          ELSE [raised |-> None,
                sample |-> Some([k \in DOMAIN sample \cup {"metadata"} |->
                                   IF k = "input" THEN loaded.img[1]
                                   ELSE IF k = "metadata" THEN [filepath |-> path]
                                   ELSE sample[k]])]

\* ImagePathsInput.load_sample
ImagePathsLoadSample(sample, file) ==
    LET sup == PathsLoadSample(sample, file)
    IN  IF sup.raised # None THEN sup
        ELSE LET w == sup.sample[1]["input"].size[1]
                 h == sup.sample[1]["input"].size[2]
             IN  [raised |-> None,
                  sample |-> Some([sup.sample[1] EXCEPT
                                     !["metadata"] = [filepath |-> @.filepath,
                                                      size |-> <<h, w>>]])]

ImageTensorLoadSampleWH(sample) ==
    LET img == ToPilImage(sample["input"])
    IN  [raised |-> None,
         sample |-> Some([k \in DOMAIN sample \cup {"metadata"} |->
                            IF k = "input" THEN img
                            ELSE IF k = "metadata" THEN [size |-> img.size]
                            ELSE sample[k]])]

\* ImageTensorInput.load_sample
ImageTensorLoadSample(sample) ==
    LET img == ToPilImage(sample["input"])
        w == img.size[1]
        h == img.size[2]
    IN  [raised |-> None,
         sample |-> Some([k \in DOMAIN sample \cup {"metadata"} |->
                            IF k = "input" THEN img
                            ELSE IF k = "metadata" THEN [size |-> <<h, w>>]
                            ELSE sample[k]])]

\* ImageNumpyInput.load_sample: torch.from_numpy keeps the array's shape
ImageNumpyLoadSample(sample) ==
    LET img == ToPilImage(sample["input"])
        w == img.size[1]
        h == img.size[2]
    IN  [raised |-> None,
         sample |-> Some([k \in DOMAIN sample \cup {"metadata"} |->
                            IF k = "input" THEN img
                            ELSE IF k = "metadata" THEN [size |-> <<h, w>>]
                            ELSE sample[k]])]

\* ImageFiftyOneInput.load_sample
ImageFiftyOneLoadSample(sample, file) ==
    LET img_path == sample["input"]
        img == ImageDefaultLoader(img_path, file)
        w == img.size[1]
        h == img.size[2]
    IN  [raised |-> None,
         sample |-> Some([k \in DOMAIN sample \cup {"metadata"} |->
                            IF k = "input" THEN img
                            ELSE IF k = "metadata"
                              THEN [filepath |-> img_path, size |-> <<h, w>>]
                            ELSE sample[k]])]

\* FastFaceInput.load_sample
FastFaceLoadSample(sample, file) ==
    LET filepath == sample["input"]
        img == ImageDefaultLoader(filepath, file)
        w == img.size[1]
        h == img.size[2]
    IN  [raised |-> None,
         sample |-> Some([k \in DOMAIN sample \cup {"metadata"} |->
                            IF k = "input" THEN img
                            ELSE IF k = "metadata"
                              THEN [filepath |-> filepath, size |-> <<h, w>>]
                            ELSE sample[k]])]

PathLoaders == {"ImagePathsInput", "ImageFiftyOneInput", "FastFaceInput"}

ShapeLoaders == {"ImageTensorInput", "ImageNumpyInput"}

LoadSample(loader, sample, file) ==
    CASE loader = "ImagePathsInput"    -> ImagePathsLoadSample(sample, file)
      [] loader = "ImageTensorInput"   -> ImageTensorLoadSample(sample)
      [] loader = "ImageNumpyInput"    -> ImageNumpyLoadSample(sample)
      [] loader = "ImageFiftyOneInput" -> ImageFiftyOneLoadSample(sample, file)
      [] loader = "FastFaceInput"      -> FastFaceLoadSample(sample, file)

SamplePaths ==
    { <<"a", ".", "j", "p", "g">>, <<"a", ".", "n", "p", "y">>, <<"a", ".", "t", "x", "t">> }

\* the sample before loading: the input, with or without a target, with or
\* without metadata left by an earlier stage
RawSamples(inputs) ==
    UNION { {[k \in {"input"} \cup extra |->
                IF k = "input" THEN i
                ELSE IF k = "target" THEN t
                ELSE [size |-> <<0, 0>>]] : i \in inputs, t \in 0..1}
            : extra \in SUBSET {"target", "metadata"} }

CallLoadSample ==
    /\ pc = "idle"
    /\ \/ \E loader \in PathLoaders, sample \in RawSamples(SamplePaths), file \in Files :
            ret' = [op  |-> "load_sample",
                    in  |-> [loader |-> loader, sample |-> sample, file |-> Some(file)],
                    out |-> LoadSample(loader, sample, file)]
       \/ \E loader \in ShapeLoaders, sample \in RawSamples(Shapes) :
            ret' = [op  |-> "load_sample",
                    in  |-> [loader |-> loader, sample |-> sample, file |-> None],
                    out |-> LoadSample(loader, sample, [w |-> 1, h |-> 1])]
    /\ pc' = "returned"
    /\ UNCHANGED <<cli, events, checkpoints>>

\* ------------------------------------------------------ fastface collate
Boxes == { <<0, 0, 1, 1>>, <<1, 2, 3, 4>> }

Targets == {[boxes |-> bs, labels |-> [j \in 1..Len(bs) |-> 1]] :
              bs \in {<<>>} \cup {<<b>> : b \in Boxes}}

\* what ff.utils.preprocess.prepare_batch may answer for one image: a scale
\* and the padding (left, top) it applied
Scales == 1..2

Paddings == {<<px, py>> : px \in 0..1, py \in 0..1}

\* a batch of n samples with the same keys, as one dataset produces them
Batches(n) ==
    UNION { [1..n -> {[k \in {"input"} |-> [size |-> <<1, 1>>]]}],
            [1..n -> {[k \in {"input", "target"} |->
                         IF k = "input" THEN [size |-> <<1, 1>>] ELSE t] : t \in Targets}] }

ScaleBox(box, scale, padding) ==
    <<box[1] * scale + padding[1], box[2] * scale + padding[2],
      box[3] * scale + padding[1], box[4] * scale + padding[2]>>

PadThenScaleBox(box, scale, padding) ==
    <<(box[1] + padding[1]) * scale, (box[2] + padding[2]) * scale,
      (box[3] + padding[1]) * scale, (box[4] + padding[2]) * scale>>

FastfaceCollateFnPadFirst(samples, scales, paddings) ==
    LET n == Len(samples)
        keys == DOMAIN samples[1]
    IN  [key \in keys \cup {"scales", "paddings"} |->
           IF key = "scales" THEN scales
           ELSE IF key = "paddings" THEN paddings
           ELSE IF key = "target"
             THEN [i \in 1..n |->
                     [target_boxes |->
                        [j \in 1..Len(samples[i]["target"].boxes) |->
                           PadThenScaleBox(samples[i]["target"].boxes[j],
                                           scales[i], paddings[i])]]]
           ELSE IF key = "input"
             THEN [i \in 1..n |-> [image |-> samples[i]["input"],
                                   scale |-> scales[i], padding |-> paddings[i]]]
           ELSE [i \in 1..n |-> samples[i][key]]]

\* fastface_collate_fn, with prepare_batch answering `scales` and `paddings`
\* (one per image) and the images it scaled and padded
FastfaceCollateFn(samples, scales, paddings) ==
    LET n == Len(samples)
        keys == DOMAIN samples[1]
    IN  [key \in keys \cup {"scales", "paddings"} |->
           IF key = "scales" THEN scales
           ELSE IF key = "paddings" THEN paddings
           ELSE IF key = "target"
             THEN [i \in 1..n |->
                     [target_boxes |->
                        [j \in 1..Len(samples[i]["target"].boxes) |->
                           ScaleBox(samples[i]["target"].boxes[j],
                                    scales[i], paddings[i])]]]
           ELSE IF key = "input"
             THEN [i \in 1..n |-> [image |-> samples[i]["input"],
                                   scale |-> scales[i], padding |-> paddings[i]]]
           ELSE [i \in 1..n |-> samples[i][key]]]

CallCollate ==
    /\ pc = "idle"
    /\ \E n \in 1..MaxBatch :
         \E samples \in Batches(n), scales \in [1..n -> Scales],
            paddings \in [1..n -> Paddings] :
           ret' = [op  |-> "fastface_collate_fn",
                   in  |-> [samples |-> samples, scales |-> scales,
                            paddings |-> paddings],
                   out |-> FastfaceCollateFn(samples, scales, paddings)]
    /\ pc' = "returned"
    /\ UNCHANGED <<cli, events, checkpoints>>

\* ------------------------------------------------------- CLI entry points
Entries == {"question_answering", "keypoint_detection"}

CheckpointPath(entry) ==
    IF entry = "question_answering"
      THEN "question_answering_model.pt"
      ELSE "keypoint_detection_model.pt"

\* The next step did `done` and control moves to `next`, or it raised and
\* the exception leaves the entry point.
Step(at, done, next) ==
    /\ pc = at
    /\ \/ events' = Append(events, done) /\ pc' = next
       \/ events' = Append(events, "raise") /\ pc' = "cli.crashed"
    /\ UNCHANGED <<ret, cli, checkpoints>>

\* question_answering() / keypoint_detection() is run as the main program:
\* FlashCLI(...) starts by calling default_datamodule_builder
CliStart ==
    /\ pc = "idle"
    /\ events = <<>>
    /\ \E entry \in Entries : cli' = entry
    /\ pc' = "cli.download"
    /\ UNCHANGED <<ret, events, checkpoints>>

\* from_squad: download_data(...); from_biwi: icedata.biwi.load_data()
CliDownload == Step("cli.download", "download", "cli.datamodule")

\* QuestionAnsweringData.from_squad_v2(...) / KeypointDetectionData.from_folders(...)
CliDataModule == Step("cli.datamodule", "datamodule", "cli.task")

\* FlashCLI constructs the task and the trainer
CliTask == Step("cli.task", "task", "cli.fit")

\* FlashCLI hands the task and the data module to the trainer, which trains
CliFit == Step("cli.fit", "fit", "cli.save")

CliSaveCheckpointAlways ==
    /\ pc \in {"cli.save", "cli.crashed"}
    /\ checkpoints = <<>>
    /\ checkpoints' = Append(checkpoints, CheckpointPath(cli))
    /\ events' = Append(events, "save")
    /\ pc' = "cli.done"
    /\ UNCHANGED <<ret, cli>>

\* cli.trainer.save_checkpoint("<entry>_model.pt"), once FlashCLI(...) returned
CliSaveCheckpoint ==
    /\ pc = "cli.save"
    /\ \/ /\ checkpoints' = Append(checkpoints, CheckpointPath(cli))
          /\ events' = Append(events, "save")
          /\ pc' = "cli.done"
       \/ /\ checkpoints' = checkpoints
          /\ events' = Append(events, "raise")
          /\ pc' = "cli.crashed"
    /\ UNCHANGED <<ret, cli>>

\* ------------------------------------- style transfer default transforms
\* self.training / self.predicting of the transform: its running stage
Training(stage) == stage = "train"

Predicting(stage) == stage = "predict"

DefaultTransformsFnNoStage(image_size, stage) ==
    Some([hook \in {"pre_tensor_transform", "to_tensor_transform"} |->
            IF hook = "pre_tensor_transform"
              THEN [fn |-> "Resize", size |-> image_size]
              ELSE [fn |-> "ToTensor", size |-> <<>>]])

\* the undecorated StyleTransferInputTransform.default_transforms: None, or
\* a dict from hook names to transforms
DefaultTransformsFn(image_size, stage) ==
    IF Training(stage)
      THEN Some([hook \in {"to_tensor_transform", "per_sample_transform_on_device"} |->
                   IF hook = "to_tensor_transform"
                     THEN [fn |-> "ToTensor", size |-> <<>>]
                     ELSE [fn |-> "Resize+CenterCrop", size |-> image_size]])
    ELSE IF Predicting(stage)
      THEN Some([hook \in {"pre_tensor_transform", "to_tensor_transform"} |->
                   IF hook = "pre_tensor_transform"
                     THEN [fn |-> "Resize", size |-> image_size]
                     ELSE [fn |-> "ToTensor", size |-> <<>>]])
    ELSE None

\* ApplyToKeys(keys, transform)
ApplyToKeys(keys, transform) == [apply_to |-> keys, transform |-> transform]

\* the wrapper _apply_to_input puts around default_transforms_fn, given
\* what default_transforms_fn returned
ApplyToInput(default_transforms, keys) ==
    IF ~Truthy(default_transforms)
      THEN default_transforms
      ELSE Some([hook \in DOMAIN default_transforms[1] |->
                   ApplyToKeys(keys, default_transforms[1][hook])])

\* StyleTransferInputTransform.default_transforms as decorated
\* (keys = DataKeys.INPUT)
DefaultTransforms(image_size, stage) ==
    ApplyToInput(DefaultTransformsFn(image_size, stage), "input")

CallDefaultTransforms ==
    /\ pc = "idle"
    /\ \E sz \in ImageSizes, stage \in RunningStages :
         LET t == StyleTransferInit(None, None, None, None, sz).obj[1]
         IN  ret' = [op  |-> "StyleTransferInputTransform.default_transforms",
                     in  |-> [self |-> t, stage |-> stage],
                     out |-> [inner   |-> DefaultTransformsFn(t.image_size, stage),
                              wrapped |-> DefaultTransforms(t.image_size, stage)]]
    /\ pc' = "returned"
    /\ UNCHANGED <<cli, events, checkpoints>>

\* --------------------------------------------- FaceDetectionInputTransform
\* image_size: Tuple[int, int] = (128, 128)
DefaultFaceImageSize == 128

\* FaceDetectionInputTransform.__init__: image_size is stored as given
FaceDetectionInit(train_transform, val_transform, test_transform, predict_transform, image_size) ==
    [raised |-> None,
     steps  |-> <<"image_size", "super().__init__">>,
     obj    |-> Some([cls        |-> "FaceDetectionInputTransform",
                      image_size |-> image_size.v,
                      transforms |-> [train_transform   |-> train_transform,
                                      val_transform     |-> val_transform,
                                      test_transform    |-> test_transform,
                                      predict_transform |-> predict_transform]])]

NewFaceDetectionInputTransform ==
    /\ pc = "idle"
    /\ \E tr \in {None, Some([h \in {"collate"} |-> "fn"])},
          va \in TransformArgs,
          sz \in {z \in ImageSizes : z.tag = "tuple"}
                  \cup {[tag |-> "tuple",
                         v |-> <<DefaultFaceImageSize, DefaultFaceImageSize>>]} :
         ret' = [op  |-> "FaceDetectionInputTransform.__init__",
                 in  |-> [train_transform |-> tr, val_transform |-> va,
                          test_transform |-> None, predict_transform |-> None,
                          image_size |-> sz],
                 out |-> FaceDetectionInit(tr, va, None, None, sz)]
    /\ pc' = "returned"
    /\ UNCHANGED <<cli, events, checkpoints>>

\* ------------------------------------------- get_state_dict / load_state_dict
\* self.transforms of the base InputTransform: the per-phase transforms
Transforms(t) == t.transforms

\* get_state_dict: {**self.transforms, "image_size": self.image_size} for
\* style transfer, {**self.transforms} for face detection
GetStateDict(t) ==
    IF t.cls = "StyleTransferInputTransform"
      THEN [train_transform   |-> Transforms(t).train_transform,
            val_transform     |-> Transforms(t).val_transform,
            test_transform    |-> Transforms(t).test_transform,
            predict_transform |-> Transforms(t).predict_transform,
            image_size        |-> t.image_size]
      ELSE [train_transform   |-> Transforms(t).train_transform,
            val_transform     |-> Transforms(t).val_transform,
            test_transform    |-> Transforms(t).test_transform,
            predict_transform |-> Transforms(t).predict_transform]

\* load_state_dict: cls(**state_dict); a keyword the dict lacks takes the
\* constructor's default
LoadStateDict(cls, state_dict) ==
    LET size == IF "image_size" \in DOMAIN state_dict
                  THEN [tag |-> IF Len(state_dict.image_size) = 1 THEN "int" ELSE "tuple",
                        v |-> state_dict.image_size]
                ELSE IF cls = "StyleTransferInputTransform"
                  THEN [tag |-> "int", v |-> <<DefaultImageSize>>]
                  ELSE [tag |-> "tuple",
                        v |-> <<DefaultFaceImageSize, DefaultFaceImageSize>>]
    IN  IF cls = "StyleTransferInputTransform"
          THEN StyleTransferInit(state_dict.train_transform, state_dict.val_transform,
                                 state_dict.test_transform, state_dict.predict_transform,
                                 size)
          ELSE FaceDetectionInit(state_dict.train_transform, state_dict.val_transform,
                                 state_dict.test_transform, state_dict.predict_transform,
                                 size)

IsTransform(r) ==
    r.op \in {"StyleTransferInputTransform.__init__",
              "FaceDetectionInputTransform.__init__", "load_state_dict"}

\* t2 = type(t).load_state_dict(t.get_state_dict()), on a transform just
\* constructed or just reloaded
SaveAndReload ==
    /\ pc = "returned"
    /\ IsTransform(ret)
    /\ ret.out.raised = None
    /\ LET t == ret.out.obj[1]
           first == ret.op # "load_state_dict"
           trips == IF first THEN 1 ELSE ret.in.trips + 1
       IN  /\ trips <= MaxTrips
           /\ ret' = [op  |-> "load_state_dict",
                      in  |-> [orig  |-> IF first THEN t ELSE ret.in.orig,
                               trips |-> trips,
                               state_dict |-> GetStateDict(t)],
                      out |-> LoadStateDict(t.cls, GetStateDict(t))]
    /\ UNCHANGED <<pc, cli, events, checkpoints>>

\* ------------------------------------------------------------- scheduling
\* The caller drops the result; the interpreter is ready for the next call.
Return ==
    /\ pc = "returned"
    /\ pc' = "idle"
    /\ ret' = NoCall
    /\ UNCHANGED <<cli, events, checkpoints>>

Init ==
    /\ pc = "idle"
    /\ ret = NoCall
    /\ cli = "none"
    /\ events = <<>>
    /\ checkpoints = <<>>

Next ==
    \/ NewInput
    \/ NewStyleTransferInputTransform
    \/ StyleTransferFromFolders
    \/ CallImageLoader
    \/ CallDeserialize
    \/ NewRegressionTask
    \/ CallLoadSample
    \/ CallCollate
    \/ CallDefaultTransforms
    \/ NewFaceDetectionInputTransform
    \/ SaveAndReload
    \/ CliStart
    \/ CliDownload
    \/ CliDataModule
    \/ CliTask
    \/ CliFit
    \/ CliSaveCheckpoint
    \/ Return

Spec == Init /\ [][Next]_vars

\* =================================================================== claims
IsCall(op) == pc = "returned" /\ ret.op = op

NonEmpty(o) == o # None /\ DOMAIN o[1] # {}

\* C1: constructing a subclass of Input succeeds (an object is returned)
\* when its data is list-backed, and raises RuntimeError "Use IterableInput
\* instead." with no object returned when its data is iterator-backed.
C1_InputValidation ==
    IsCall("Input.__init__") /\ ret.in.cls = "Input" =>
        /\ ret.in.data.kind = "list" =>
              /\ ret.out.raised = None
              /\ ret.out.obj # None
              /\ ret.out.obj[1].data = ret.in.data
        /\ ret.in.data.kind = "iterator" =>
              /\ ret.out.raised =
                   Some([exc |-> "RuntimeError", msg |-> "Use IterableInput instead."])
              /\ ret.out.obj = None

C1_Witness ==
    /\ IsCall("Input.__init__")
    /\ ret.in.cls = "Input"
    /\ ret.in.data.kind = "iterator"
    /\ Len(ret.in.data.items) = MaxLen
    /\ ret.out.raised # None

\* C2: constructing a subclass of IterableInput succeeds when its data is
\* iterator-backed and raises RuntimeError "Use Input instead." when it is
\* list-backed; for every data source exactly one of Input and
\* IterableInput accepts it.
C2_IterableInputValidation ==
    IsCall("Input.__init__") =>
        /\ ret.in.cls = "IterableInput" =>
              /\ ret.in.data.kind = "iterator" =>
                    ret.out.raised = None /\ ret.out.obj # None
              /\ ret.in.data.kind = "list" =>
                    /\ ret.out.raised =
                         Some([exc |-> "RuntimeError", msg |-> "Use Input instead."])
                    /\ ret.out.obj = None
        /\ LET other == IF ret.in.cls = "Input" THEN "IterableInput" ELSE "Input"
           IN  (ret.out.raised = None)
                 # (ConstructInput(other, ret.in.stage, ret.in.data).raised = None)

C2_Witness ==
    /\ IsCall("Input.__init__")
    /\ ret.in.cls = "IterableInput"
    /\ ret.in.data.kind = "list"
    /\ ret.out.raised # None

\* C3 as stated: constructing a StyleTransferInputTransform raises whenever
\* val_transform or test_transform is anything other than None (validation
\* checked first), before image_size is set or the base is initialised, and
\* succeeds with both None.
C3_RaisesOnAnyNonNone ==
    IsCall("StyleTransferInputTransform.__init__") =>
        LET va == ret.in.val_transform
            te == ret.in.test_transform
        IN  /\ va # None =>
                  /\ ret.out.raised = Some(RaiseNotSupported("validation"))
                  /\ ret.out.steps = <<>>
            /\ va = None /\ te # None =>
                  /\ ret.out.raised = Some(RaiseNotSupported("test"))
                  /\ ret.out.steps = <<>>
            /\ va = None /\ te = None => ret.out.raised = None

\* C3 amended: the constructor raises exactly when val_transform or
\* test_transform is a non-empty mapping (validation checked first), before
\* image_size is set or the base is initialised; None and the empty mapping
\* alike let construction go on to set image_size and initialise the base.
C3_RaisesOnNonEmpty ==
    IsCall("StyleTransferInputTransform.__init__") =>
        LET va == ret.in.val_transform
            te == ret.in.test_transform
        IN  /\ NonEmpty(va) =>
                  /\ ret.out.raised = Some(RaiseNotSupported("validation"))
                  /\ ret.out.steps = <<>>
                  /\ ret.out.obj = None
            /\ ~NonEmpty(va) /\ NonEmpty(te) =>
                  /\ ret.out.raised = Some(RaiseNotSupported("test"))
                  /\ ret.out.steps = <<>>
                  /\ ret.out.obj = None
            /\ ~NonEmpty(va) /\ ~NonEmpty(te) =>
                  /\ ret.out.raised = None
                  /\ ret.out.steps = <<"image_size", "super().__init__">>
                  /\ ret.out.obj # None

C3_Witness ==
    /\ IsCall("StyleTransferInputTransform.__init__")
    /\ NonEmpty(ret.in.val_transform)
    /\ NonEmpty(ret.in.test_transform)
    /\ ret.out.raised = Some(RaiseNotSupported("validation"))

\* C4: from_folders raises the validation error when val_folder or
\* val_transform is passed with a non-None value, the test error when
\* test_folder or test_transform is (validation first); then no input
\* transform is constructed and from_input is not called.  Otherwise it
\* calls from_input with the FOLDERS format and the train and predict data.
C4_FromFolders ==
    IsCall("StyleTransferData.from_folders") =>
        LET kw == ret.in.kwargs
            passed(p) == p \in DOMAIN kw /\ kw[p] # None
            val == passed("val_folder") \/ passed("val_transform")
            test == passed("test_folder") \/ passed("test_transform")
        IN  /\ val =>
                  /\ ret.out.raised = Some(RaiseNotSupported("validation"))
                  /\ ~ret.out.constructed
                  /\ ret.out.from_input = None
            /\ ~val /\ test =>
                  /\ ret.out.raised = Some(RaiseNotSupported("test"))
                  /\ ~ret.out.constructed
                  /\ ret.out.from_input = None
            /\ ~val /\ ~test =>
                  /\ ret.out.raised = None
                  /\ ret.out.constructed = (ret.in.input_transform = None)
                  /\ ret.out.from_input # None
                  /\ ret.out.from_input[1].format = "FOLDERS"
                  /\ ret.out.from_input[1].train_data = ret.in.train_folder
                  /\ ret.out.from_input[1].predict_data = ret.in.predict_folder
                  /\ \A p \in DOMAIN ret.out.from_input[1].kwargs \ {"batch_size"} :
                        ret.out.from_input[1].kwargs[p] = None

C4_Witness ==
    /\ IsCall("StyleTransferData.from_folders")
    /\ "val_transform" \in DOMAIN ret.in.kwargs
    /\ ret.in.kwargs["val_transform"] = Some("empty")
    /\ "test_folder" \in DOMAIN ret.in.kwargs
    /\ ret.in.kwargs["test_folder"] = Some("given")
    /\ ret.out.raised = Some(RaiseNotSupported("validation"))

\* C5: image_loader loads a path with an image extension with the default
\* image loader, a path with the .npy extension (and no image extension) as
\* a numpy array turned into an image, and raises ValueError naming the file
\* and the supported extensions, loading nothing, for every other path.
C5_ImageLoaderDispatch ==
    IsCall("image_loader") =>
        LET f == ret.in.filepath
            isImg == \E e \in IMG_EXTENSIONS : EndsWith(f, e)
            isNp == EndsWith(f, <<".", "n", "p", "y">>)
        IN  /\ isImg =>
                  /\ ret.out.raised = None
                  /\ ret.out.loads = <<"image_default_loader">>
                  /\ ret.out.img = Some(ImageDefaultLoader(f, ret.in.file))
            /\ ~isImg /\ isNp =>
                  /\ ret.out.raised = None
                  /\ ret.out.loads = <<"np.load">>
                  /\ ret.out.img = Some(ImageFromArray(f, ret.in.file))
            /\ ~isImg /\ ~isNp =>
                  /\ ret.out.raised # None
                  /\ ret.out.raised[1].exc = "ValueError"
                  /\ ret.out.raised[1].file = f
                  /\ ret.out.raised[1].supported = IMG_EXTENSIONS \cup NP_EXTENSIONS
                  /\ ret.out.loads = <<>>
                  /\ ret.out.img = None
            /\ Len(ret.out.loads) = 1 <=> ret.out.raised = None

C5_Witness ==
    /\ IsCall("image_loader")
    /\ ret.in.filepath = <<"a", ".", "t", "x", "t">>
    /\ ret.out.raised # None

\* C6: for every byte payload, its base64 encoding with the trailing padding
\* kept, partly removed or fully removed is deserialized to exactly the
\* payload's bytes, in a sample whose only key is the input key.
C6_PaddingCorrected ==
    IsCall("ImageDeserializer.deserialize") /\ ret.in.payload # None =>
        /\ ret.out.raised = None
        /\ ret.out.sample # None
        /\ DOMAIN ret.out.sample[1] = {"input"}
        /\ ret.out.sample[1]["input"].bytes = ret.in.payload[1]

C6_Witness ==
    /\ IsCall("ImageDeserializer.deserialize")
    /\ ret.in.payload # None
    /\ Len(ret.in.payload[1]) = 1
    /\ ret.in.stripped = 2
    /\ ret.out.raised = None
    /\ ret.out.sample[1]["input"].bytes = ret.in.payload[1]

\* C7 as stated: _build uses the mean-squared-error loss and metric when
\* loss_fn or metrics is not given, passes through unchanged ANY loss_fn or
\* metrics the caller supplies, returns (metrics, loss_fn), and
\* RegressionTask hands each to the matching keyword of Task.
C7_AnySuppliedPassedThrough ==
    IsCall("RegressionTask.__init__") =>
        /\ ret.in.loss_fn = None => ret.out.task_init.loss_fn = [fn |-> "mse_loss"]
        /\ ret.in.loss_fn # None => ret.out.task_init.loss_fn = ret.in.loss_fn[1]
        /\ ret.in.metrics = None =>
              ret.out.task_init.metrics =
                  [kind |-> "Metric", items |-> <<"MeanSquaredError">>]
        /\ ret.in.metrics # None => ret.out.task_init.metrics = ret.in.metrics[1]
        /\ ret.out.built = <<ret.out.task_init.metrics, ret.out.task_init.loss_fn>>

\* C7 amended: the defaults are used when loss_fn or metrics is None or
\* falsy (an empty sequence or mapping of metrics); every other loss_fn or
\* metrics is passed through unchanged; the pair is returned as
\* (metrics, loss_fn) and each goes to the matching keyword of Task.
C7_TruthyPassedThrough ==
    IsCall("RegressionTask.__init__") =>
        LET emptyMetrics == ret.in.metrics # None /\ ret.in.metrics[1].items = <<>>
        IN  /\ ret.in.loss_fn = None => ret.out.task_init.loss_fn = [fn |-> "mse_loss"]
            /\ ret.in.loss_fn # None => ret.out.task_init.loss_fn = ret.in.loss_fn[1]
            /\ ret.in.metrics = None \/ emptyMetrics =>
                  ret.out.task_init.metrics =
                      [kind |-> "Metric", items |-> <<"MeanSquaredError">>]
            /\ ret.in.metrics # None /\ ~emptyMetrics =>
                  ret.out.task_init.metrics = ret.in.metrics[1]
            /\ ret.out.built = <<ret.out.task_init.metrics, ret.out.task_init.loss_fn>>
            /\ ret.out.task_init.serializer = ret.in.serializer

C7_Witness ==
    /\ IsCall("RegressionTask.__init__")
    /\ ret.in.loss_fn = Some([fn |-> "l1_loss"])
    /\ ret.in.metrics = Some([kind |-> "Sequence", items |-> <<>>])
    /\ ret.out.task_init.loss_fn = [fn |-> "l1_loss"]
    /\ ret.out.task_init.metrics = [kind |-> "Metric", items |-> <<"MeanSquaredError">>]

\* C9: after load_sample of any image loader the metadata holds "size" equal
\* to (height, width) of the loaded image, the image's (width, height)
\* swapped, and the input is the loaded image; the FiftyOne and FastFace
\* loaders also record the original path under "filepath"; every key other
\* than input and metadata is left unchanged.
C9_LoadSampleMetadata ==
    IsCall("load_sample") /\ ret.out.raised = None =>
        LET before == ret.in.sample
            after == ret.out.sample[1]
            img == after["input"]
            byPath == ret.in.loader \in PathLoaders
        IN  /\ DOMAIN after = DOMAIN before \cup {"metadata"}
            /\ after["metadata"].size = <<img.size[2], img.size[1]>>
            /\ byPath =>
                  /\ img.path = before["input"]
                  /\ img.size = <<ret.in.file[1].w, ret.in.file[1].h>>
            /\ ~byPath =>
                  /\ img.from = "tensor"
                  /\ img.size = <<before["input"][3], before["input"][2]>>
            /\ ret.in.loader \in {"ImageFiftyOneInput", "FastFaceInput"} =>
                  after["metadata"].filepath = before["input"]
            /\ \A k \in DOMAIN before \ {"input", "metadata"} : after[k] = before[k]

C9_Witness ==
    /\ IsCall("load_sample")
    /\ ret.in.loader = "FastFaceInput"
    /\ "target" \in DOMAIN ret.in.sample
    /\ "metadata" \in DOMAIN ret.in.sample
    /\ ret.out.raised = None
    /\ ret.out.sample[1]["metadata"].size = <<1, 2>>
    /\ ret.out.sample[1]["input"].size = <<2, 1>>

\* C8: in every run of a CLI entry point the steps happen in the order
\* download, data module construction, training, checkpoint save; the
\* checkpoint is saved at most once, to the entry's fixed path, only after
\* training has returned; if the download, the data module construction or
\* the training raises, no checkpoint is saved.
C8_CliOrder ==
    LET order == <<"download", "datamodule", "fit", "save">>
        isStep(e) == e \in {"download", "datamodule", "fit", "save"}
        steps == SelectSeq(events, isStep)
    IN  /\ Len(steps) <= Len(order)
        /\ \A i \in 1..Len(steps) : steps[i] = order[i]
        /\ Len(checkpoints) <= 1
        /\ \A i \in 1..Len(checkpoints) :
              /\ cli = "question_answering" => checkpoints[i] = "question_answering_model.pt"
              /\ cli = "keypoint_detection" => checkpoints[i] = "keypoint_detection_model.pt"
        /\ checkpoints # <<>> =>
              \E i, j \in 1..Len(events) :
                 i < j /\ events[i] = "fit" /\ events[j] = "save"
        /\ (\E i \in 1..Len(events) : events[i] = "raise") => checkpoints = <<>>
        /\ \A i \in 1..Len(events) : events[i] = "raise" => i = Len(events)

C8_Witness ==
    /\ pc = "cli.done"
    /\ cli = "keypoint_detection"
    /\ events = <<"download", "datamodule", "task", "fit", "save">>
    /\ checkpoints = <<"keypoint_detection_model.pt">>

\* C10: fastface_collate_fn turns a non-empty list of samples into one
\* mapping with the same keys plus "scales" and "paddings", each holding one
\* entry per sample in the original order; with targets, target i becomes
\* {"target_boxes": boxes_i} with every coordinate multiplied by scale_i and
\* then x (columns 0, 2) shifted by padding_i[0] and y (columns 1, 3) by
\* padding_i[1]; without targets no target key is added.
C10_Collate ==
    IsCall("fastface_collate_fn") =>
        LET samples == ret.in.samples
            n == Len(samples)
            batch == ret.out
        IN  /\ DOMAIN batch = DOMAIN samples[1] \cup {"scales", "paddings"}
            /\ \A key \in DOMAIN batch : Len(batch[key]) = n
            /\ batch["scales"] = ret.in.scales
            /\ batch["paddings"] = ret.in.paddings
            /\ \A i \in 1..n : batch["input"][i].image = samples[i]["input"]
            /\ "target" \in DOMAIN samples[1] =>
                  \A i \in 1..n :
                     LET boxes == samples[i]["target"].boxes
                         s == ret.in.scales[i]
                         p == ret.in.paddings[i]
                         out == batch["target"][i]
                     IN  /\ DOMAIN out = {"target_boxes"}
                         /\ Len(out.target_boxes) = Len(boxes)
                         /\ \A j \in 1..Len(boxes) :
                               /\ out.target_boxes[j][1] = boxes[j][1] * s + p[1]
                               /\ out.target_boxes[j][2] = boxes[j][2] * s + p[2]
                               /\ out.target_boxes[j][3] = boxes[j][3] * s + p[1]
                               /\ out.target_boxes[j][4] = boxes[j][4] * s + p[2]

C10_Witness ==
    /\ IsCall("fastface_collate_fn")
    /\ Len(ret.in.samples) = 2
    /\ "target" \in DOMAIN ret.in.samples[1]
    /\ ret.in.samples[2]["target"].boxes = << <<1, 2, 3, 4>> >>
    /\ ret.in.scales = <<1, 2>>
    /\ ret.in.paddings = << <<0, 0>>, <<1, 0>> >>
    /\ ret.out["target"][2].target_boxes = << <<3, 4, 7, 8>> >>

\* C11: default_transforms depends only on the running phase: in training
\* it returns exactly the hooks to_tensor_transform and
\* per_sample_transform_on_device, in predicting exactly pre_tensor_transform
\* and to_tensor_transform, in validation or test None; when a mapping is
\* returned the _apply_to_input wrapper keeps the hook names and wraps every
\* transform so that it is applied to the input key only.
C11_DefaultTransforms ==
    IsCall("StyleTransferInputTransform.default_transforms") =>
        LET stage == ret.in.stage
            inner == ret.out.inner
            wrapped == ret.out.wrapped
        IN  /\ stage = "train" =>
                  /\ wrapped # None
                  /\ DOMAIN wrapped[1] =
                       {"to_tensor_transform", "per_sample_transform_on_device"}
            /\ stage = "predict" =>
                  /\ wrapped # None
                  /\ DOMAIN wrapped[1] = {"pre_tensor_transform", "to_tensor_transform"}
            /\ stage \in {"validate", "test"} => wrapped = None
            /\ wrapped # None =>
                  /\ inner # None
                  /\ DOMAIN wrapped[1] = DOMAIN inner[1]
                  /\ \A hook \in DOMAIN wrapped[1] :
                        /\ wrapped[1][hook].apply_to = "input"
                        /\ wrapped[1][hook].transform = inner[1][hook]

C11_Witness ==
    /\ IsCall("StyleTransferInputTransform.default_transforms")
    /\ ret.in.stage = "predict"
    /\ ret.in.self.image_size = <<1, 2>>
    /\ ret.out.wrapped # None
    /\ ret.out.wrapped[1]["pre_tensor_transform"] =
         [apply_to |-> "input", transform |-> [fn |-> "Resize", size |-> <<1, 2>>]]

\* a reloaded transform has the class, image_size and per-phase transforms
\* of the transform first saved
Preserved ==
    /\ ret.out.raised = None
    /\ ret.out.obj # None
    /\ ret.out.obj[1].cls = ret.in.orig.cls
    /\ ret.out.obj[1].image_size = ret.in.orig.image_size
    /\ ret.out.obj[1].transforms = ret.in.orig.transforms

\* the style-transfer half of C12: every round trip preserves the
\* configuration, an int image_size n staying (n, n)
StyleTransferRoundTrip ==
    IsCall("load_state_dict") /\ ret.in.orig.cls = "StyleTransferInputTransform" =>
        Preserved

\* C12: saving and reloading an input transform preserves its
\* configuration: for every FaceDetectionInputTransform and every
\* StyleTransferInputTransform t, load_state_dict(t.get_state_dict())
\* constructs without error a transform of the same class whose image_size
\* and per-phase transforms equal those of t, after any number of round trips.
C12_RoundTripPreserves ==
    IsCall("load_state_dict") => Preserved

====
